---- MODULE Spec2Model ----
(***************************************************************************)
(* csvpresto.py: grouped aggregation over CSV rows.                        *)
(*                                                                         *)
(* Strings are sequences of character codes, compared as Python compares   *)
(* str (lexicographically by code point).  Every cell of a row is a record *)
(* [t, s, n, d]: t = "str" (s the characters), t = "None" (the dummy       *)
(* row's fields), t = "int" (n, a Python int: COUNT's result), t = "float" *)
(* (the float n/d in lowest terms: float(), sum(), mean(), min(), max()).  *)
(* All floats of the model are small rationals, on which Python's float    *)
(* arithmetic is exact up to the final rounding of mean().                 *)
(***************************************************************************)
EXTENDS Integers, Sequences, FiniteSets, TLC

\* ---------------------------------------------------------------- bounds
MaxRows == 2        \* data rows in the input file
MaxSortCols == 2    \* length of the list handed to sort_ascend / sort_descend
MaxK == 2           \* largest rows argument of display (the smallest is -MaxK)
MaxGrid == 3        \* rows added to a stand-alone DataFormatter

\* ---------------------------------------------------------------- values
Str(chars) == [t |-> "str", s |-> chars, n |-> 0, d |-> 1]
NoneV == [t |-> "None", s |-> <<>>, n |-> 0, d |-> 1]
IntV(k) == [t |-> "int", s |-> <<>>, n |-> k, d |-> 1]

RECURSIVE Gcd(_, _)
Gcd(a, b) == IF b = 0 THEN a ELSE Gcd(b, a % b)

FloatV(num, den) ==
    LET g == Gcd(num, den)
    IN [t |-> "float", s |-> <<>>, n |-> num \div g, d |-> den \div g]

Reverse(l) == [i \in 1..Len(l) |-> l[Len(l) + 1 - i]]

Digits == 48..57

\* the field texts of the input: "2", "10", "x"
FieldTexts == {<<50>>, <<49, 48>>, <<120>>}
AllRowsText == <<65, 76, 76, 32, 82, 79, 87, 83>>
HeaderTexts == <<<<97>>, <<98>>>>
NCols == Len(HeaderTexts)

\* Python's str < str
StrLess(a, b) ==
    \E k \in 1..Len(b) :
        /\ k <= Len(a) + 1
        /\ \A i \in 1..(k - 1) : a[i] = b[i]
        /\ (k > Len(a) \/ a[k] < b[k])

\* Python's < on two cells of one column (str with str, number with number)
Less(x, y) ==
    CASE x.t = "str" /\ y.t = "str" -> StrLess(x.s, y.s)
      [] x.t \in {"int", "float"} /\ y.t \in {"int", "float"} -> x.n * y.d < y.n * x.d

\* ---------------------------------------------------------------- utilities
RECURSIVE Decimal(_)
Decimal(chars) ==
    IF chars = <<>> THEN 0
    ELSE 10 * Decimal(SubSeq(chars, 1, Len(chars) - 1)) + (chars[Len(chars)] - 48)

\* a safe_float that coerces what float() rejects to 0.0 instead of exiting
safe_float_lenient(s) ==
    IF s.t = "str" /\ s.s # <<>> /\ \A i \in 1..Len(s.s) : s.s[i] \in Digits
    THEN [ok |-> TRUE, v |-> FloatV(Decimal(s.s), 1)]
    ELSE [ok |-> TRUE, v |-> FloatV(0, 1)]

\* float(s) or sys.exit(err_msg)
safe_float(s) ==
    IF s.t = "str" /\ s.s # <<>> /\ \A i \in 1..Len(s.s) : s.s[i] \in Digits
    THEN [ok |-> TRUE, v |-> FloatV(Decimal(s.s), 1)]
    ELSE [ok |-> FALSE, v |-> NoneV]

\* list.sort(key=lambda x: x[col], reverse=reverse): stable in both directions
ListSort(data, col, reverse) ==
    LET n == Len(data)
        key(i) == data[i][col + 1]
        before(j, i) == IF reverse THEN Less(key(i), key(j)) ELSE Less(key(j), key(i))
        same(j, i) == ~Less(key(i), key(j)) /\ ~Less(key(j), key(i))
        pos(i) == 1 + Cardinality({j \in 1..n : before(j, i)})
                    + Cardinality({j \in 1..(i - 1) : same(j, i)})
    IN [p \in 1..n |-> data[CHOOSE i \in 1..n : pos(i) = p]]

RECURSIVE SortPasses(_, _, _)
SortPasses(data, cols, reverse) ==
    IF cols = <<>> THEN data
    ELSE SortPasses(ListSort(data, Head(cols), reverse), Tail(cols), reverse)

\* the passes of a buggy data_sort that forgets the first sort_cols.reverse()
data_sort_forward(data, sort_cols, reverse) ==
    [data |-> SortPasses(data, sort_cols, reverse), sort_cols |-> sort_cols]

\* data_sort: both lists are mutated in place; the result is their final content
data_sort(data, sort_cols, reverse) ==
    LET rc == Reverse(sort_cols)
    IN [data |-> SortPasses(data, rc, reverse), sort_cols |-> Reverse(rc)]

\* ---------------------------------------------------------------- accumulators
\* the operations that reach the grouping loop (HEADERS exits at line 245)
Operations == {"SUM", "COUNT", "AVG", "MIN", "MAX"}

\* the operation's name as text: "SUM", "COUNT", "AVG", "MIN", "MAX"
OpText(op) ==
    CASE op = "SUM" -> <<83, 85, 77>>
      [] op = "COUNT" -> <<67, 79, 85, 78, 84>>
      [] op = "AVG" -> <<65, 86, 71>>
      [] op = "MIN" -> <<77, 73, 78>>
      [] op = "MAX" -> <<77, 65, 88>>

RECURSIVE SumN(_)
SumN(values) == IF values = <<>> THEN 0 ELSE Head(values).n + SumN(Tail(values))

\* every accumulated value is a float(...) of a digit string, so has d = 1
Extreme(values, greatest) ==
    CHOOSE v \in {values[i] : i \in 1..Len(values)} :
        \A i \in 1..Len(values) :
            IF greatest THEN ~Less(v, values[i]) ELSE ~Less(values[i], v)

\* get_value of the accumulator class new_accumulator(type) returns; ok = FALSE
\* when it raises (mean, max and min of an empty list)
get_value(type, values) ==
    CASE type = "COUNT" -> [ok |-> TRUE, v |-> IntV(Len(values))]
      [] type = "SUM" ->
            [ok |-> TRUE,
             v |-> IF values = <<>> THEN IntV(0) ELSE FloatV(SumN(values), 1)]
      [] type = "AVG" ->
            IF values = <<>> THEN [ok |-> FALSE, v |-> NoneV]
            ELSE [ok |-> TRUE, v |-> FloatV(SumN(values), Len(values))]
      [] type = "MAX" ->
            IF values = <<>> THEN [ok |-> FALSE, v |-> NoneV]
            ELSE [ok |-> TRUE, v |-> Extreme(values, TRUE)]
      [] type = "MIN" ->
            IF values = <<>> THEN [ok |-> FALSE, v |-> NoneV]
            ELSE [ok |-> TRUE, v |-> Extreme(values, FALSE)]

\* ---------------------------------------------------------------- formatter
max_col_width == 15
col_spacing == 3
RuleWidth == 70
FracDigits == 16

RECURSIVE DecimalText(_)
DecimalText(k) ==
    IF k < 10 THEN <<48 + k>> ELSE DecimalText(k \div 10) \o <<48 + (k % 10)>>

RECURSIVE FracText(_, _, _)
FracText(rem, den, k) ==
    IF k = 0 \/ rem = 0 THEN <<>>
    ELSE <<48 + ((10 * rem) \div den)>> \o FracText((10 * rem) % den, den, k - 1)

\* str(item).  For a float whose expansion does not terminate this is the
\* expansion cut after FracDigits digits: it agrees with Python's repr on the
\* first max_col_width characters and on min(max_col_width, len), which is all
\* that display reads of it.
StrOf(item) ==
    CASE item.t = "str" -> item.s
      [] item.t = "int" -> DecimalText(item.n)
      [] item.t = "float" ->
            DecimalText(item.n \div item.d) \o <<46>> \o
            (IF item.n % item.d = 0 THEN <<48>>
             ELSE FracText(item.n % item.d, item.d, FracDigits))
      [] item.t = "None" -> <<78, 111, 110, 101>>

Min2(a, b) == IF a < b THEN a ELSE b
Max2(a, b) == IF a < b THEN b ELSE a

Spaces(k) == [i \in 1..k |-> 32]

pad_left(s, n) == Spaces(Max2(0, n - Len(s))) \o s

\* a slice that treats k <= 0 as "no limit"
SliceAllWhenNotPositive(grid, k) ==
    IF k > 0 THEN SubSeq(grid, 1, IF k < Len(grid) THEN k ELSE Len(grid)) ELSE grid

\* data_grid[:rows]
SliceTo(grid, k) ==
    IF k >= 0 THEN SubSeq(grid, 1, Min2(k, Len(grid)))
    ELSE SubSeq(grid, 1, Max2(0, Len(grid) + k))

\* calculate_col_widths; ok = FALSE when a row is longer than the headers
\* (widths[j] raises IndexError)
calculate_col_widths(hdrs, grid) ==
    IF \E i \in 1..Len(grid) : Len(grid[i]) > Len(hdrs)
    THEN [ok |-> FALSE, widths |-> <<>>]
    ELSE [ok |-> TRUE,
          widths |->
            [j \in 1..Len(hdrs) |->
                LET lens == {Len(StrOf(hdrs[j]))} \cup
                            {Len(StrOf(grid[i][j])) : i \in {k \in 1..Len(grid) : j <= Len(grid[k])}}
                IN CHOOSE w \in lens : \A x \in lens : x <= w]]

RECURSIVE list_to_colstring(_, _, _, _)
list_to_colstring(l, widths, spacing, max_width) ==
    IF l = <<>> THEN <<>>
    ELSE LET i == Len(l)
             item == StrOf(l[i])
         IN list_to_colstring(SubSeq(l, 1, i - 1), widths, spacing, max_width) \o
            pad_left(SubSeq(item, 1, Min2(max_width, Len(item))),
                     Min2(max_width, widths[i]) + spacing)

TextLine(chars) == [kind |-> "text", cells |-> <<>>, text |-> chars]
CsvLine(row) == [kind |-> "csv", cells |-> row, text |-> <<>>]

\* what display(rows) prints, line by line; rows is an option [set, v]
display(hdrs, grid, widths, rows) ==
    LET shown == IF rows.set THEN SliceTo(grid, rows.v) ELSE SliceTo(grid, Len(grid))
    IN << TextLine(<<>>),
          TextLine(list_to_colstring(hdrs, widths, col_spacing, max_col_width)),
          TextLine([i \in 1..RuleWidth |-> 45]) >> \o
       [i \in 1..Len(shown) |->
            TextLine(list_to_colstring(shown[i], widths, col_spacing, max_col_width))]

\* the rows display_as_csv(rows) hands to the csv writer
display_as_csv(hdrs, grid, rows) ==
    LET shown == IF rows.set THEN SliceTo(grid, rows.v) ELSE SliceTo(grid, Len(grid))
    IN <<CsvLine(hdrs)>> \o [i \in 1..Len(shown) |-> CsvLine(shown[i])]

\* ---------------------------------------------------------------- options
\* an optional command-line value (None when set = FALSE)
Unset == [set |-> FALSE, v |-> <<>>]
UnsetInt == [set |-> FALSE, v |-> 0]
Some(x) == [set |-> TRUE, v |-> x]

SeqsUpTo(S, k) == UNION {[1..m -> S] : m \in 1..k}

IsInjective(l) == \A i, j \in 1..Len(l) : l[i] = l[j] => i = j

Range(l) == {l[i] : i \in 1..Len(l)}

\* list.index(a): 0-based position of the first occurrence
IndexOf(l, a) == (CHOOSE i \in 1..Len(l) : l[i] = a /\ \A j \in 1..(i - 1) : l[j] # a) - 1

\* [val for col, val in enumerate(row) if col in group_cols]
RECURSIVE Projection(_, _)
Projection(row, gcols) ==
    IF row = <<>> THEN <<>>
    ELSE Projection(SubSeq(row, 1, Len(row) - 1), gcols) \o
         (IF (Len(row) - 1) \in Range(gcols) THEN <<row[Len(row)]>> ELSE <<>>)

\* ---------------------------------------------------------------- state
VARIABLES
    pc,            \* position of the main program, or of a DataFormatter's client
    infile,        \* the rows csv.reader yields: the header row, then the data rows
    operation,     \* args.operation
    group_cols,    \* args.group_cols
    stat_cols,     \* args.stat_cols
    combined_cols, \* args.combined_cols
    ascend_cols,   \* args.ascend_cols, from the step that reads it on
    descend_cols,  \* args.descend_cols, from the step that reads it on
    headers,       \* headers
    data,          \* data
    ctr,           \* ctr: index of the row the loop is about to process
    prev_group,    \* prev_group
    accumulators,  \* accumulators[j]._values
    fheaders,      \* formatter.headers
    data_grid,     \* formatter.data_grid
    col_widths,    \* formatter.col_widths
    cols,          \* the list handed to sort_ascend / sort_descend
    rows,          \* the rows argument of the last display / display_as_csv
    output         \* the lines written to stdout

vars == <<pc, infile, operation, group_cols, stat_cols, combined_cols, ascend_cols,
          descend_cols, headers, data, ctr, prev_group, accumulators, fheaders,
          data_grid, col_widths, cols, rows, output>>

argVars == <<operation, stat_cols, combined_cols>>
fmtVars == <<fheaders, data_grid, col_widths, cols, rows, output>>
loopVars == <<ctr, prev_group, accumulators>>

AllRows == Str(AllRowsText)
Fields == {Str(x) : x \in FieldTexts}
HeaderRow == [i \in 1..NCols |-> Str(HeaderTexts[i])]
DataRows == [1..NCols -> Fields]
Files == {<<HeaderRow>> \o body : body \in UNION {[1..m -> DataRows] : m \in 0..MaxRows}}

\* column numbers of the file's columns and of the appended "ALL ROWS" column
Columns == 0..NCols
\* the -g lists tried: one column, two columns in both orders, a repeated
\* column, the "ALL ROWS" column
GroupLists == {<<0>>, <<0, 1>>, <<1, 0>>, <<0, 0>>, <<NCols>>}
\* the -s lists tried: one column, two columns, the "ALL ROWS" column
StatLists == {<<1>>, <<0, 1>>, <<NCols>>}

\* The state once ArgRetriever() has returned: -g and -s were both given (line 86
\* raises otherwise).  -a, -d, -r and -c are drawn by the steps that read them.
Init ==
    /\ pc = "read"
    /\ infile \in Files
    /\ operation \in Operations
    /\ group_cols \in GroupLists
    /\ stat_cols \in StatLists
    /\ combined_cols = group_cols \o stat_cols
    /\ ascend_cols = Unset
    /\ descend_cols = Unset
    /\ headers = <<>>
    /\ data = <<>>
    /\ ctr = 0
    /\ prev_group = <<>>
    /\ accumulators = <<>>
    /\ fheaders = <<>>
    /\ data_grid = <<>>
    /\ col_widths = <<>>
    /\ cols = <<>>
    /\ rows = UnsetInt
    /\ output = <<>>

\* lines 232-236
ReadData ==
    /\ pc = "read"
    /\ headers' = Append(infile[1], AllRows)
    /\ data' = [i \in 1..(Len(infile) - 1) |-> Append(infile[i + 1], AllRows)]
    /\ pc' = "validate"
    /\ UNCHANGED <<infile, argVars, group_cols, ascend_cols, descend_cols, loopVars, fmtVars>>

\* lines 258-267
Validate ==
    /\ pc = "validate"
    /\ pc' = IF Len(data) = 0 THEN "no_data"
             ELSE IF \E c \in Range(group_cols) \cup Range(stat_cols) : c >= Len(headers)
                  THEN "bad_column"
             ELSE IF \E i \in 1..Len(data) : Len(data[i]) # Len(headers)
                  THEN "bad_row"
             ELSE "sort"
    /\ UNCHANGED <<infile, argVars, group_cols, ascend_cols, descend_cols, headers, data,
                   loopVars, fmtVars>>

\* line 271
SortData ==
    /\ pc = "sort"
    /\ LET r == data_sort(data, group_cols, FALSE)
       IN /\ data' = r.data
          /\ group_cols' = r.sort_cols
    /\ pc' = "setup"
    /\ UNCHANGED <<infile, argVars, ascend_cols, descend_cols, headers, loopVars, fmtVars>>

\* lines 278-281: the result table's header
result_headers(hdrs, gcols, scols, op) ==
    [i \in 1..Len(gcols) |-> hdrs[gcols[i] + 1]] \o
    [i \in 1..Len(scols) |-> Str(OpText(op) \o <<32>> \o hdrs[scols[i] + 1].s)]

\* line 273 without the seeding from the first row
seed_nothing(row, gcols) == <<>>

\* line 273
seed_group(row, gcols) == Projection(row, gcols)

\* lines 272-281
Setup ==
    /\ pc = "setup"
    /\ data' = Append(data, [i \in 1..Len(data[1]) |-> NoneV])
    /\ prev_group' = seed_group(data[1], group_cols)
    /\ accumulators' = [j \in 1..Len(stat_cols) |-> <<>>]
    /\ fheaders' = result_headers(headers, group_cols, stat_cols, operation)
    /\ data_grid' = <<>>
    /\ col_widths' = <<>>
    /\ ctr' = 0
    /\ pc' = "loop"
    /\ UNCHANGED <<infile, argVars, group_cols, ascend_cols, descend_cols, headers,
                   cols, rows, output>>

\* line 285
curr_group(row, gcols) == Projection(row, gcols)

\* line 289: the group changed
GroupChanged(row, gcols, prev) == curr_group(row, gcols) # prev


\* lines 299-303 for one row: the first stat column whose field is not a number,
\* or 0 when every field is one
FirstBad(row, scols) ==
    LET bad == {j \in 1..Len(scols) : ~safe_float(row[scols[j] + 1]).ok}
    IN IF bad = {} THEN 0 ELSE CHOOSE j \in bad : \A k \in bad : j <= k

\* line 292 left out
reset_none(accs) == accs

\* line 292
reset_all(accs) == [j \in 1..Len(accs) |-> <<>>]

\* lines 283-305: one iteration of the grouping loop
LoopIter ==
    /\ pc = "loop"
    /\ LET row == data[ctr + 1]
           changed == GroupChanged(row, group_cols, prev_group)
           got == [j \in 1..Len(accumulators) |-> get_value(operation, accumulators[j])]
           raised == changed /\ \E j \in 1..Len(got) : ~got[j].ok
           grid1 == IF changed
                    THEN Append(data_grid, prev_group \o [j \in 1..Len(got) |-> got[j].v])
                    ELSE data_grid
           acc1 == IF changed THEN reset_all(accumulators) ELSE accumulators
           bad == FirstBad(row, stat_cols)
       IN IF raised
          THEN /\ pc' = "stat_error"
               /\ UNCHANGED <<ctr, prev_group, accumulators, data_grid>>
          ELSE IF ctr = Len(data) - 1
          THEN /\ pc' = "sort_out"
               /\ data_grid' = grid1
               /\ accumulators' = acc1
               /\ UNCHANGED <<ctr, prev_group>>
          ELSE IF bad # 0
          THEN /\ pc' = "non_numeric"
               /\ data_grid' = grid1
               /\ accumulators' =
                    [j \in 1..Len(acc1) |->
                        IF j < bad
                        THEN Append(acc1[j], safe_float(row[stat_cols[j] + 1]).v)
                        ELSE acc1[j]]
               /\ UNCHANGED <<ctr, prev_group>>
          ELSE /\ pc' = "loop"
               /\ data_grid' = grid1
               /\ accumulators' =
                    [j \in 1..Len(acc1) |->
                        Append(acc1[j], safe_float(row[stat_cols[j] + 1]).v)]
               /\ prev_group' = curr_group(row, group_cols)
               /\ ctr' = ctr + 1
    /\ UNCHANGED <<infile, argVars, group_cols, ascend_cols, descend_cols, headers, data,
                   fheaders, col_widths, cols, rows, output>>

\* ---------------------------------------------------------------- DataFormatter
\* x[col] raises IndexError for some row of the grid
SortRaises(grid, c) ==
    \E i \in 1..Len(grid) : \E k \in 1..Len(c) : c[k] >= Len(grid[i])

\* sort_ascend / sort_descend
sort_ascend(grid, c) == data_sort(grid, c, FALSE)
\* a sort_descend that reverses the ascending order, ties included
sort_descend_flipped(grid, c) ==
    [data |-> Reverse(data_sort(grid, c, FALSE).data), sort_cols |-> c]

sort_descend(grid, c) == data_sort(grid, c, TRUE)

\* the values of -r the main program is run with
MainRowCounts == {UnsetInt, Some(1)}

\* the -a / -d lists the main program is run with: one column of -g or -s
MainSortLists(S) == {<<c>> : c \in S}

\* lines 308-311: -a wins over -d; the lists name source columns, which
\* combined_cols.index turns into result-table columns
SecondarySort ==
    /\ pc = "sort_out"
    /\ \E a, d \in {Unset} \cup {Some(l) : l \in MainSortLists(Range(combined_cols))} :
        /\ ~(a.set /\ d.set) \/ a = d
        /\ ascend_cols' = a
        /\ descend_cols' = d
        /\ IF ~a.set /\ ~d.set
           THEN /\ pc' = "display"
                /\ UNCHANGED <<data_grid, cols>>
           ELSE LET src == IF a.set THEN a.v ELSE d.v
                    idx == [i \in 1..Len(src) |-> IndexOf(combined_cols, src[i])]
                    r == IF a.set THEN sort_ascend(data_grid, idx)
                         ELSE sort_descend(data_grid, idx)
                IN IF SortRaises(data_grid, idx)
                   THEN /\ pc' = "index_error"
                        /\ cols' = idx
                        /\ UNCHANGED data_grid
                   ELSE /\ pc' = "display"
                        /\ data_grid' = r.data
                        /\ cols' = r.sort_cols
    /\ UNCHANGED <<infile, argVars, group_cols, headers, data, loopVars, fheaders,
                   col_widths, rows, output>>

\* lines 313-316
Display ==
    /\ pc = "display"
    /\ \E k \in MainRowCounts, csv_output \in BOOLEAN :
        LET w == calculate_col_widths(fheaders, data_grid)
        IN /\ rows' = k
           /\ IF csv_output
              THEN /\ output' = display_as_csv(fheaders, data_grid, k)
                   /\ pc' = "done"
                   /\ UNCHANGED col_widths
              ELSE IF ~w.ok
              THEN /\ pc' = "index_error"
                   /\ UNCHANGED <<output, col_widths>>
              ELSE /\ col_widths' = w.widths
                   /\ output' = display(fheaders, data_grid, w.widths, k)
                   /\ pc' = "done"
    /\ UNCHANGED <<infile, argVars, group_cols, ascend_cols, descend_cols, headers, data,
                   loopVars, fheaders, data_grid, cols>>

Next == ReadData \/ Validate \/ SortData \/ Setup \/ LoopIter \/ SecondarySort \/ Display

Spec == Init /\ [][Next]_vars

\* ---------------------------------------------------------------- a DataFormatter driven directly
\* The class on its own: set_headers once, add_data_row up to MaxGrid times, then
\* any sequence of sort_ascend / sort_descend, then display or display_as_csv.
\* pc records the last call: "fmt_asc_desc" is a sort_descend made right after
\* a sort_ascend with the same columns.
GridHeaders == <<Str(HeaderTexts[1]), Str(<<83, 85, 77, 32>> \o HeaderTexts[2])>>
GridRows == {<<k, v>> : k \in {Str(<<50>>), Str(<<49, 48>>)},
                        v \in {FloatV(2, 1), FloatV(10, 1)}}
GridColumns == 0..(Len(GridHeaders) - 1)

\* the rows arguments tried
RowCounts == {UnsetInt} \cup {Some(k) : k \in (-MaxK)..MaxK}

\* the column lists tried
SortLists == {l \in SeqsUpTo(GridColumns, MaxSortCols) : IsInjective(l)}

InitFmt ==
    /\ pc = "fmt_new"
    /\ infile = <<>>
    /\ operation = "SUM"
    /\ group_cols = <<>>
    /\ stat_cols = <<>>
    /\ combined_cols = <<>>
    /\ ascend_cols = Unset
    /\ descend_cols = Unset
    /\ headers = <<>>
    /\ data = <<>>
    /\ ctr = 0
    /\ prev_group = <<>>
    /\ accumulators = <<>>
    /\ fheaders = <<>>
    /\ data_grid = <<>>
    /\ col_widths = <<>>
    /\ cols = <<>>
    /\ rows = UnsetInt
    /\ output = <<>>

mainVars == <<infile, operation, group_cols, stat_cols, combined_cols, ascend_cols,
              descend_cols, headers, data, ctr, prev_group, accumulators>>

Sortable == {"fmt_build", "fmt_asc", "fmt_desc", "fmt_asc_desc"}

\* set_headers
FmtSetHeaders ==
    /\ pc = "fmt_new"
    /\ fheaders' = GridHeaders
    /\ pc' = "fmt_build"
    /\ UNCHANGED <<mainVars, data_grid, col_widths, cols, rows, output>>

\* add_data_row
FmtAddRow ==
    /\ pc = "fmt_build"
    /\ Len(data_grid) < MaxGrid
    /\ \E r \in GridRows : data_grid' = Append(data_grid, r)
    /\ UNCHANGED <<pc, mainVars, fheaders, col_widths, cols, rows, output>>

\* sort_ascend(cols)
FmtSortAscend ==
    /\ pc \in Sortable
    /\ \E c \in SortLists :
        LET r == sort_ascend(data_grid, c)
        IN /\ data_grid' = r.data
           /\ cols' = r.sort_cols
    /\ pc' = "fmt_asc"
    /\ UNCHANGED <<mainVars, fheaders, col_widths, rows, output>>

\* sort_descend(cols)
FmtSortDescend ==
    /\ pc \in Sortable
    /\ \E c \in SortLists :
        LET r == sort_descend(data_grid, c)
        IN /\ data_grid' = r.data
           /\ cols' = r.sort_cols
           /\ pc' = IF pc = "fmt_asc" /\ c = cols THEN "fmt_asc_desc" ELSE "fmt_desc"
    /\ UNCHANGED <<mainVars, fheaders, col_widths, rows, output>>

\* display(rows)
FmtDisplay ==
    /\ pc \in Sortable
    /\ \E k \in RowCounts :
        LET w == calculate_col_widths(fheaders, data_grid)
        IN /\ rows' = k
           /\ IF ~w.ok
              THEN /\ pc' = "index_error"
                   /\ UNCHANGED <<output, col_widths>>
              ELSE /\ col_widths' = w.widths
                   /\ output' = display(fheaders, data_grid, w.widths, k)
                   /\ pc' = "fmt_shown"
    /\ UNCHANGED <<mainVars, fheaders, data_grid, cols>>

\* display_as_csv(rows)
FmtDisplayCsv ==
    /\ pc \in Sortable
    /\ \E k \in RowCounts :
        /\ rows' = k
        /\ output' = display_as_csv(fheaders, data_grid, k)
    /\ pc' = "fmt_shown"
    /\ UNCHANGED <<mainVars, fheaders, data_grid, col_widths, cols>>

NextFmt ==
    FmtSetHeaders \/ FmtAddRow \/ FmtSortAscend \/ FmtSortDescend \/ FmtDisplay
    \/ FmtDisplayCsv

SpecFmt == InitFmt /\ [][NextFmt]_vars

\* ================================================================ properties
\* the data rows as line 232 builds them, in file order
Rows0 == [i \in 1..(Len(infile) - 1) |-> Append(infile[i + 1], AllRows)]

\* the group-column list as given on the command line (line 86 copies it)
GivenGroupCols == SubSeq(combined_cols, 1, Len(combined_cols) - Len(stat_cols))

\* GroupKey of a row: its fields at the group columns, in the order specified
GroupKey(row) == [i \in 1..Len(GivenGroupCols) |-> row[GivenGroupCols[i] + 1]]

\* the fields of a row at the columns c, in the order of c
KeyOf(row, c) == [k \in 1..Len(c) |-> row[c[k] + 1]]

\* lexicographic < on two keys of equal length
KeyLess(a, b) ==
    \E k \in 1..Len(a) : (\A i \in 1..(k - 1) : a[i] = b[i]) /\ Less(a[k], b[k])

Perms(n) == {f \in [1..n -> 1..n] : \A i, j \in 1..n : f[i] = f[j] => i = j}

\* a text float() accepts: a non-empty run of digits
IsNumeral(cell) ==
    cell.t = "str" /\ Len(cell.s) > 0 /\ \A i \in 1..Len(cell.s) : cell.s[i] \in 48..57

RECURSIVE NumeralValue(_)
NumeralValue(chars) ==
    IF Len(chars) = 0 THEN 0
    ELSE (Head(chars) - 48) * 10 ^ (Len(chars) - 1) + NumeralValue(Tail(chars))

RECURSIVE TotalOver(_, _)
TotalOver(members, c) ==
    IF members = {} THEN 0
    ELSE LET i == CHOOSE m \in members : TRUE
         IN NumeralValue(Rows0[i][c + 1].s) + TotalOver(members \ {i}, c)

\* the statistic op of source column c over the input rows numbered in members
StatisticOver(op, members, c) ==
    LET nums == {NumeralValue(Rows0[i][c + 1].s) : i \in members}
    IN CASE op = "COUNT" -> IntV(Cardinality(members))
         [] op = "SUM" -> FloatV(TotalOver(members, c), 1)
         [] op = "AVG" -> FloatV(TotalOver(members, c), Cardinality(members))
         [] op = "MIN" -> FloatV(CHOOSE x \in nums : \A y \in nums : x <= y, 1)
         [] op = "MAX" -> FloatV(CHOOSE x \in nums : \A y \in nums : x >= y, 1)

\* the input rows of the group a result row was emitted for: the rows whose
\* GroupKey equals that of a row the result row's key fields were taken from
MembersOf(r) ==
    LET key == SubSeq(r, 1, Len(r) - Len(stat_cols))
        seeds == {i \in 1..Len(Rows0) : Projection(Rows0[i], GivenGroupCols) = key}
    IN {i \in 1..Len(Rows0) : \E s \in seeds : GroupKey(Rows0[i]) = GroupKey(Rows0[s])}

\* the first stat column of a row whose field is not a number, 0 if none
FirstBadStat(row) ==
    LET bad == {j \in 1..Len(stat_cols) : ~IsNumeral(row[stat_cols[j] + 1])}
    IN IF bad = {} THEN 0 ELSE CHOOSE j \in bad : \A k \in bad : j <= k

\* the grouping loop has just finished without error
LoopFinished == pc = "sort_out"

\* C1: when the grouping loop finishes without error the result table holds
\* exactly one ResultRow per distinct GroupKey of the input: every ResultRow
\* starts with a GroupKey of the input, and every GroupKey of the input starts
\* exactly one ResultRow.
C1_OneRowPerGroupKey ==
    LoopFinished =>
        LET n == Len(GivenGroupCols)
            keys == {GroupKey(Rows0[i]) : i \in 1..Len(Rows0)}
            keyOfRow(r) == IF Len(r) >= n THEN SubSeq(r, 1, n) ELSE r
        IN /\ \A g \in 1..Len(data_grid) :
                Len(data_grid[g]) >= n /\ keyOfRow(data_grid[g]) \in keys
           /\ \A k \in keys :
                Cardinality({g \in 1..Len(data_grid) : keyOfRow(data_grid[g]) = k}) = 1

\* C2: every stat field of every ResultRow is the statistic of its stat column
\* over exactly the input rows of the ResultRow's group.
C2_StatOverGroupRows ==
    \A g \in 1..Len(data_grid) :
        LET r == data_grid[g]
            nk == Len(r) - Len(stat_cols)
            members == MembersOf(r)
        IN /\ nk >= 0
           /\ members # {}
           /\ \A j \in 1..Len(stat_cols) :
                /\ \A i \in members : IsNumeral(Rows0[i][stat_cols[j] + 1])
                /\ r[nk + j] = StatisticOver(operation, members, stat_cols[j])

\* a group of two rows with different values has been averaged
C2_Witness ==
    /\ LoopFinished
    /\ operation = "AVG"
    /\ Len(data_grid) = 1
    /\ Len(Rows0) = 2
    /\ Rows0[1][stat_cols[1] + 1] # Rows0[2][stat_cols[1] + 1]
    /\ data_grid[1][Len(data_grid[1])] = FloatV(6, 1)

\* C3: under COUNT the run never aborts because of stat-column content.
C3_CountNeverAborts == operation = "COUNT" => pc # "non_numeric"

\* some stat-column field of some data row is not a number
HasNonNumericStat ==
    \E i \in 1..Len(Rows0) : \E j \in 1..Len(stat_cols) :
        ~IsNumeral(Rows0[i][stat_cols[j] + 1])

\* C4: under SUM, AVG, MIN or MAX a non-numeric stat field anywhere in the data
\* keeps the run from ever reaching the rendering: it stops in the abort state
\* at the latest, and nothing is written.
C4_AbortRendersNothing ==
    (operation # "COUNT" /\ HasNonNumericStat) =>
        /\ pc \in {"read", "validate", "sort", "setup", "loop", "non_numeric"}
        /\ output = <<>>
        /\ (pc = "loop" => \E i \in (ctr + 1)..(Len(data) - 1) :
                                FirstBadStat(data[i]) # 0)

\* the run aborted on a non-numeric field after a group had been finalized
C4_Witness ==
    /\ pc = "non_numeric"
    /\ operation = "SUM"
    /\ Len(data_grid) >= 1
    /\ output = <<>>

\* C5: every ResultRow has as many fields as the header, and its first
\* |group_cols| fields are the values of source columns group_cols[1],
\* group_cols[2], ... (in the order specified) of a row of the input.
C5_RowsAlignedWithHeader ==
    \A g \in 1..Len(data_grid) :
        /\ Len(data_grid[g]) = Len(fheaders)
        /\ \E i \in 1..Len(Rows0) :
                SubSeq(data_grid[g], 1, Len(GivenGroupCols)) = GroupKey(Rows0[i])

\* the source column whose values a requested sort column c must order by, read
\* off ResultRow r: the group's value of c when c is a group column, else the
\* finalized statistic of c
SortValue(r, c) ==
    IF c \in Range(GivenGroupCols)
    THEN LET i == CHOOSE m \in MembersOf(r) : TRUE IN Rows0[i][c + 1]
    ELSE r[Len(r) - Len(stat_cols) + IndexOf(stat_cols, c) + 1]

\* C8: after the secondary sort the ResultRows are ordered (ascending for -a,
\* descending for -d) by the values of the requested source columns, composite
\* in the order requested.
C8_SortsByRequestedColumns ==
    (pc = "display" /\ (ascend_cols.set \/ descend_cols.set)) =>
        LET req == IF ascend_cols.set THEN ascend_cols.v ELSE descend_cols.v
            val(g) == [k \in 1..Len(req) |-> SortValue(data_grid[g], req[k])]
        IN \A g, h \in 1..Len(data_grid) :
            g < h => IF ascend_cols.set THEN ~KeyLess(val(h), val(g))
                     ELSE ~KeyLess(val(g), val(h))

\* C9: data_sort(data, group_cols) leaves in data a permutation of the input rows
\* that is non-decreasing by the composite key taken in list order, with rows of
\* equal composite key in their input order, and leaves group_cols as it was.
C9_DataSortStableComposite ==
    pc = "setup" =>
        /\ group_cols = GivenGroupCols
        /\ Len(data) = Len(Rows0)
        /\ \E f \in Perms(Len(data)) :
            /\ \A i \in 1..Len(data) : data[i] = Rows0[f[i]]
            /\ \A i, j \in 1..Len(data) :
                i < j =>
                    /\ ~KeyLess(KeyOf(data[j], GivenGroupCols), KeyOf(data[i], GivenGroupCols))
                    /\ (KeyOf(data[i], GivenGroupCols) = KeyOf(data[j], GivenGroupCols)
                            => f[i] < f[j])

\* two columns were sorted on and the sort moved rows
C9_Witness ==
    /\ pc = "setup"
    /\ Len(GivenGroupCols) = 2
    /\ GivenGroupCols[1] # GivenGroupCols[2]
    /\ data # Rows0

\* C10: whenever the loop is about to finalize the accumulators (the row it is
\* about to process starts another group, the dummy row included), every
\* accumulator holds at least one value; get_value never raises.
C10_FinalizeNeverEmpty ==
    /\ pc # "stat_error"
    /\ (pc = "loop" /\ curr_group(data[ctr + 1], group_cols) # prev_group) =>
            \A j \in 1..Len(accumulators) : Len(accumulators[j]) >= 1

\* an average is about to be finalized at the dummy row, after an earlier group
C10_Witness ==
    /\ pc = "loop"
    /\ operation = "AVG"
    /\ ctr = Len(data) - 1
    /\ Len(data_grid) >= 1
    /\ curr_group(data[ctr + 1], group_cols) # prev_group

\* the data lines of the output, after the header (CSV) or after the blank
\* line, the header and the rule (text)
RenderedRows ==
    IF output[1].kind = "csv" THEN SubSeq(output, 2, Len(output))
    ELSE SubSeq(output, 4, Len(output))

\* how the rows of a table come out in the format the output is in
RenderingOf(table) ==
    [i \in 1..Len(table) |->
        IF output[1].kind = "csv" THEN CsvLine(table[i])
        ELSE TextLine(list_to_colstring(table[i], col_widths, col_spacing, max_col_width))]

FirstRows(table, k) == [i \in 1..k |-> table[i]]

\* C6 as stated: unset or K <= 0 renders every row, otherwise the first
\* min(K, n) rows are rendered, in table order.
C6_LimitAsStated ==
    pc = "fmt_shown" =>
        LET n == Len(data_grid)
        IN RenderedRows =
            RenderingOf(IF ~rows.set \/ rows.v <= 0 THEN data_grid
                        ELSE FirstRows(data_grid, IF rows.v < n THEN rows.v ELSE n))

\* C6 amended: unset renders every row; K >= 0 renders the first min(K, n) rows;
\* K < 0 renders the first max(n + K, 0) rows; always in table order.
C6_LimitIsPythonSlice ==
    pc = "fmt_shown" =>
        LET n == Len(data_grid)
        IN RenderedRows =
            RenderingOf(IF ~rows.set THEN data_grid
                        ELSE IF rows.v >= 0
                        THEN FirstRows(data_grid, IF rows.v < n THEN rows.v ELSE n)
                        ELSE FirstRows(data_grid, IF n + rows.v > 0 THEN n + rows.v ELSE 0))

\* a text table was rendered with a negative row count that leaves rows over
C6_Witness ==
    /\ pc = "fmt_shown"
    /\ output[1].kind = "text"
    /\ rows.set
    /\ rows.v < 0
    /\ Len(data_grid) + rows.v > 0
    /\ Len(RenderedRows) = Len(data_grid) + rows.v

\* two rows of the table agree on every sort column
TiedRows(table, c) ==
    \E i, j \in 1..Len(table) : i # j /\ KeyOf(table[i], c) = KeyOf(table[j], c)

\* C7 as stated: sort_descend right after sort_ascend on the same columns
\* leaves exactly the reverse of what sort_ascend left.
C7_DescendReversesAscend ==
    [][(pc = "fmt_asc" /\ pc' = "fmt_asc_desc") => data_grid' = Reverse(data_grid)]_vars

\* C7 amended: it leaves the rows non-increasing by the composite key with rows
\* that agree on every sort column in the order sort_ascend left them; that is
\* the exact reverse when no two rows agree on every sort column.
C7_DescendReversesBlocks ==
    [][(pc = "fmt_asc" /\ pc' = "fmt_asc_desc") =>
            /\ cols' = cols
            /\ (~TiedRows(data_grid, cols) => data_grid' = Reverse(data_grid))
            /\ \E f \in Perms(Len(data_grid)) :
                /\ \A i \in 1..Len(data_grid) : data_grid'[i] = data_grid[f[i]]
                /\ \A i, j \in 1..Len(data_grid) :
                    i < j =>
                        /\ ~KeyLess(KeyOf(data_grid'[i], cols), KeyOf(data_grid'[j], cols))
                        /\ (KeyOf(data_grid'[i], cols) = KeyOf(data_grid'[j], cols)
                                => f[i] < f[j])]_vars

\* sort_descend has followed sort_ascend on a table in which two different rows
\* agree on every sort column and a third does not
C7_Witness ==
    /\ pc = "fmt_asc_desc"
    /\ \E i, j \in 1..Len(data_grid) :
        /\ i < j
        /\ data_grid[i] # data_grid[j]
        /\ KeyOf(data_grid[i], cols) = KeyOf(data_grid[j], cols)
    /\ \E i, j \in 1..Len(data_grid) :
        KeyLess(KeyOf(data_grid[j], cols), KeyOf(data_grid[i], cols))

====
